---- MODULE Spec2Model ----
(***************************************************************************)
(* Nova media player: the App shell (library view / player view) and the   *)
(* Player component (src/unnamed/part_006, src/unnamed/part_003 lines      *)
(* 194-1481) as a state machine.  One action per event handler, engine     *)
(* callback, timer callback or promise callback.                           *)
(*                                                                         *)
(* Units: positions and media lengths are whole seconds, the volume is in  *)
(* tenths (10 = 1.0), timer delays are whole seconds (3000 ms = 3).        *)
(***************************************************************************)
EXTENDS Integers, Sequences, FiniteSets, TLC

\* ------------------------------------------------------------- bounds
\* number of player sessions (calls of playVideo) explored
MaxSessions == 1
\* length in seconds of the media files the engine reports
MediaLen == 2
\* length, in seconds, of the chaptered feature of the catalogue
FeatureLen == 8
\* performance.now() is followed up to this many milliseconds
MaxNow == 2000
\* the engine decodes at most this many frames in a session
MaxDecoded == 45
\* subtitle files imported in a session
MaxImports == 2
\* the timing offset is followed this many tenths of a second either way
MaxOffset == 1
\* lines of the subtitle file the user writes
MaxSrtLines == 8
\* entries of a library that starts empty
MaxLibrary == 3
\* player sessions on a library that starts empty
MaxReplays == 2

\* -------------------------------------------------- program constants
\* window.setTimeout(..., 3000) in handleMouseMove
AmbientHideDelay == 3
\* window.setTimeout(..., 2000) in showControlsTemp
TempHideDelay == 2
\* seek(-10) / seek(10) in handleKeyDown
SeekStep == 10
\* changeVolume(0.1) / changeVolume(-0.1), in tenths
VolumeStep == 1
\* upper clamp of changeVolume, Math.min(..., 1), in tenths
VolumeMax == 10

\* MediaError.code values the error handler distinguishes; 5 stands for any
\* code outside 1..4 (the switch's default)
ErrorCodes == 1..5

NoError == "none"
MsgUnknown == "An unknown playback error occurred."
MsgNetwork == "A network error caused the video download to fail."
MsgDecode == "The video playback was aborted due to a corruption problem or because the video used features your browser did not support."
MsgUnsupported == "The video could not be loaded, either because the server or network failed or because the format is not supported."

\* The files of the library: the VideoFile records (types.ts) the Player
\* receives as its video prop.  intro is <<start, end>> or <<>>, chapters the
\* startTime of each metadata chapter, in metadata order.  The mock intro of
\* guessMetadata is independent of the file: the one of the first file ends
\* after the file does.
\* length is the duration the engine reports for the file.
Catalog ==
    << [id |-> 1, intro |-> <<1, MediaLen + 1>>, chapters |-> <<0, 1>>,
        length |-> MediaLen],
       [id |-> 2, intro |-> <<>>, chapters |-> <<>>, length |-> MediaLen + 1],
       [id |-> 3, intro |-> <<2, 3>>, chapters |-> <<4, 1, 9, 5>>,
        length |-> FeatureLen] >>

VARIABLES
    \* --- App (part_006)
    view,                \* 'library' | 'player'
    currentVideo,        \* id of the VideoFile being played, 0 for null
    library,             \* sequence of [id, file, lastPlayed, thumbnail, chapters]
    thumbnailJobs,       \* ids of the entries whose generateThumbnail is pending
    sessions,            \* number of playVideo calls so far; also Date.now()
    \* --- Player React state (part_003:287-343)
    isPlaying, isBuffering, error,
    showControls, showStats, showChapterList, showSettings,
    currentTime, duration,
    volume, isMuted, isFullscreen,
    subtitleTracks,      \* sequence of [id, label]; label is the file name
    selectedSubtitleTrack, \* a track id, or 'off'
    activeCues,          \* sequence of [start, end, text]
    subtitleOffset,      \* in tenths of a second
    readers,             \* FileReaders still reading: set of [name, pick]
    controlsTimeoutRef,  \* id of the last timer armed, 0 for null
    \* --- the <video> element behind videoRef
    v,                   \* [src, listeners, paused, error, volume, muted, currentTime, ready,
                         \*  buffered, totalFrames]
    autoplay,            \* the promise of v.play() in onLoadedMetadata
    \* --- host (window / document)
    timers,              \* pending setTimeout callbacks: set of [id, delay, owner]
    frames,              \* sessions owning a pending requestAnimationFrame callback
    fpsTracker,          \* the fpsTracker ref: [frames, lastTime, value]
    realtimeStats,       \* the realtimeStats state: [totalFrames, buffer, fps]
    now,                 \* performance.now(), in milliseconds
    cursor,              \* document.body.style.cursor
    fullscreenElement,   \* document.fullscreenElement is the Player container
    srtText              \* the lines of a subtitle file the user has written

appVars == <<view, currentVideo, library, thumbnailJobs, sessions>>
transportVars == <<isPlaying, isBuffering, error>>
overlayVars == <<showStats, showChapterList, showSettings>>
positionVars == <<currentTime, duration>>
volumeVars == <<volume, isMuted>>
subtitleVars ==
    <<subtitleTracks, selectedSubtitleTrack, activeCues, subtitleOffset, readers>>
settingVars == <<volumeVars, isFullscreen, subtitleVars>>
hideVars == <<showControls, controlsTimeoutRef>>
playerVars == <<transportVars, overlayVars, positionVars, settingVars, hideVars>>
\* the realtime-stats loop: its pending frame, its ref and the state it writes
statsVars == <<frames, fpsTracker, realtimeStats>>
\* what no handler but the stats loop touches
hostVars == <<timers, statsVars, cursor, fullscreenElement, now, srtText>>
vars == <<appVars, playerVars, v, autoplay, hostVars>>

\* ------------------------------------------------------------ helpers
Min(a, b) == IF a < b THEN a ELSE b
Max(a, b) == IF a > b THEN a ELSE b

\* The Player is rendered only when view = 'player' and currentVideo is set
Mounted == view = "player" /\ currentVideo # 0

\* the video prop of the mounted Player
Video ==
    Catalog[(CHOOSE e \in {library[i] : i \in 1..Len(library)} :
               e.id = currentVideo).file]

\* video.metadata.chapters: the array held by the library entry
MetadataChapters ==
    (CHOOSE e \in {library[i] : i \in 1..Len(library)} : e.id = currentVideo).chapters

\* v.duration once the metadata of the file is loaded
MediaDuration == Video.length

\* the fpsTracker ref and the realtimeStats state as the Player creates them
FreshTracker == [frames |-> 0, lastTime |-> 0, value |-> 0]
FreshStats == [totalFrames |-> 0, buffer |-> 0, fps |-> 0]

\* videoRef.current is the <video> element for as long as the Player is mounted
videoRef == IF Mounted THEN "video" ELSE "null"

\* The element as React creates it for <video src={video.url}>
FreshElement ==
    [src |-> TRUE, listeners |-> TRUE, paused |-> TRUE, error |-> 0,
     volume |-> VolumeMax, muted |-> FALSE, currentTime |-> 0, ready |-> FALSE,
     buffered |-> <<>>, totalFrames |-> 0]

\* The element after the Player is gone (or before the first session): no
\* source, no listeners
NoElement ==
    [src |-> FALSE, listeners |-> FALSE, paused |-> TRUE, error |-> 0,
     volume |-> VolumeMax, muted |-> FALSE, currentTime |-> 0, ready |-> FALSE,
     buffered |-> <<>>, totalFrames |-> 0]

\* useState initial values of the Player
PlayerInit ==
    /\ isPlaying' = FALSE
    /\ isBuffering' = FALSE
    /\ error' = NoError
    /\ showControls' = TRUE
    /\ showStats' = FALSE
    /\ showChapterList' = FALSE
    /\ showSettings' = FALSE
    /\ currentTime' = 0
    /\ duration' = 0
    /\ volume' = VolumeMax
    /\ isMuted' = FALSE
    /\ isFullscreen' = FALSE
    /\ subtitleTracks' = <<>>
    /\ selectedSubtitleTrack' = "off"
    /\ activeCues' = <<>>
    /\ subtitleOffset' = 0
    /\ readers' = {}
    /\ controlsTimeoutRef' = 0
    /\ fpsTracker' = FreshTracker
    /\ realtimeStats' = FreshStats

\* the VideoFile record handleFileDrop creates for a file (91-98)
NewEntry(id, file) ==
    [id |-> id, file |-> file, lastPlayed |-> 0, thumbnail |-> FALSE,
     chapters |-> Catalog[file].chapters]

\* the state after construction, but for the library
InitApp ==
    /\ view = "library"
    /\ currentVideo = 0
    /\ thumbnailJobs = {}
    /\ sessions = 0
    /\ isPlaying = FALSE
    /\ isBuffering = FALSE
    /\ error = NoError
    /\ showControls = TRUE
    /\ showStats = FALSE
    /\ showChapterList = FALSE
    /\ showSettings = FALSE
    /\ currentTime = 0
    /\ duration = 0
    /\ volume = VolumeMax
    /\ isMuted = FALSE
    /\ isFullscreen = FALSE
    /\ subtitleTracks = <<>>
    /\ selectedSubtitleTrack = "off"
    /\ activeCues = <<>>
    /\ subtitleOffset = 0
    /\ readers = {}
    /\ controlsTimeoutRef = 0
    /\ v = NoElement
    /\ autoplay = "none"
    /\ timers = {}
    /\ frames = {}
    /\ fpsTracker = FreshTracker
    /\ realtimeStats = FreshStats
    /\ now = 0
    /\ cursor = "default"
    /\ fullscreenElement = FALSE
    /\ srtText = <<>>

\* the files of the catalog have been imported and their thumbnail
\* generation has ended without a picture
Init ==
    /\ library = [i \in 1..Len(Catalog) |-> NewEntry(Catalog[i].id, i)]
    /\ InitApp

\* the state after construction: useState([]) (55)
InitLibrary ==
    /\ library = <<>>
    /\ InitApp

\* ------------------------------------------------------- App handlers
\* playVideo: stamp lastPlayed, set currentVideo, switch the view.  The
\* Player mounts with its initial state and its effects attach the engine
\* listeners.  Date.now() is read as the ordinal of the session.
playVideo(id) ==
    /\ view = "library"
    /\ \E i \in 1..Len(library) : library[i].id = id
    /\ library' = [i \in 1..Len(library) |->
                     IF library[i].id = id
                     THEN [library[i] EXCEPT !.lastPlayed = sessions + 1]
                     ELSE library[i]]
    /\ currentVideo' = id
    /\ view' = "player"
    /\ sessions' = sessions + 1
    /\ PlayerInit
    /\ v' = FreshElement
    /\ autoplay' = "none"
    /\ UNCHANGED <<thumbnailJobs, timers, frames, cursor, fullscreenElement, now, srtText>>

\* variant of ListenersCleanup that forgets v.pause()
ListenersCleanupNoPause(e) ==
    [e EXCEPT !.listeners = FALSE, !.src = FALSE,
              !.ready = FALSE, !.currentTime = 0, !.error = 0,
              !.buffered = <<>>, !.totalFrames = 0]

\* cleanup of the video-event-listeners effect: remove the six listeners,
\* pause, removeAttribute('src'), load (which resets the element)
ListenersCleanup(e) ==
    [e EXCEPT !.listeners = FALSE, !.paused = TRUE, !.src = FALSE,
              !.ready = FALSE, !.currentTime = 0, !.error = 0,
              !.buffered = <<>>, !.totalFrames = 0]

\* React drops the element with the component: its volume and mute flag
\* are no longer observable
Discarded(e) == [e EXCEPT !.volume = VolumeMax, !.muted = FALSE]

\* cleanup of the realtime-stats effect: cancelAnimationFrame(animationFrameId)
StatsCleanup == frames' = frames \ {sessions}

\* The Player unmounts: the effect cleanups run and React drops the
\* component state (it is shown here as reset to the initial values).  load()
\* rejects a pending play() promise with AbortError, which the catch handler
\* of onLoadedMetadata ignores.  The host leaves fullscreen when the
\* fullscreen element is removed from the document.
Unmount ==
    /\ v' = Discarded(ListenersCleanup(v))
    /\ StatsCleanup
    /\ autoplay' = "none"
    /\ PlayerInit
    /\ fullscreenElement' = FALSE
    /\ UNCHANGED <<timers, cursor, now, srtText>>

\* variant of backToLibrary that leaves currentVideo set
backToLibraryKeepsVideo ==
    /\ view' = "library"
    /\ UNCHANGED <<currentVideo, library, thumbnailJobs, sessions>>
    /\ Unmount

\* backToLibrary, the onBack prop of the Player
backToLibrary ==
    /\ view' = "library"
    /\ currentVideo' = 0
    /\ UNCHANGED <<library, thumbnailJobs, sessions>>
    /\ Unmount

\* Promise reactions are microtasks: they run before the next event is
\* dispatched, so every event handler sees the promise unsettled or done
Quiet == autoplay \in {"none", "pending"}

\* handleFileDrop(fileList) (90-111): one record per file, appended by a
\* functional update; crypto.randomUUID() is a value no entry has, here the
\* ordinal of the import; a thumbnail is requested for every new record
handleFileDrop(fileList) ==
    /\ view = "library"
    /\ Len(library) + Len(fileList) <= MaxLibrary
    /\ LET newFiles == [k \in 1..Len(fileList) |->
                          NewEntry(Len(library) + k, fileList[k])]
       IN  /\ library' = library \o newFiles
           /\ thumbnailJobs' =
                 thumbnailJobs \cup {newFiles[k].id : k \in 1..Len(newFiles)}
    /\ UNCHANGED <<view, currentVideo, sessions, playerVars, v, autoplay, hostVars>>

\* what the user drops or picks: one or two of the first two files of the
\* catalog
FileLists == {<<1>>, <<2>>, <<2, 1>>}

FileDrop == \E fileList \in FileLists : handleFileDrop(fileList)

\* variant of WithThumbnail that spreads the record the import created
WithThumbnailOfImport(entry) ==
    [NewEntry(entry.id, entry.file) EXCEPT !.thumbnail = TRUE]

\* { ...v, thumbnail } (106)
WithThumbnail(entry) == [entry EXCEPT !.thumbnail = TRUE]

\* the continuation of `await generateThumbnail(videoFile.url)` (103-109):
\* a picture updates the entry of that id, '' (no canvas context, or the
\* file does not load) updates nothing.  It runs whenever the hidden video
\* element is done, in the library or during a player session.
ThumbnailDone ==
    /\ Quiet
    /\ \E id \in thumbnailJobs :
          /\ thumbnailJobs' = thumbnailJobs \ {id}
          /\ \/ library' = [i \in 1..Len(library) |->
                               IF library[i].id = id THEN WithThumbnail(library[i])
                               ELSE library[i]]
             \/ UNCHANGED library
    /\ UNCHANGED <<view, currentVideo, sessions, playerVars, v, autoplay, hostVars>>

\* onClick of a VideoTile (168): playVideo(video)
PlayEntry ==
    /\ sessions < MaxReplays
    /\ \E i \in 1..Len(library) : playVideo(library[i].id)

\* --------------------------------- Player: the chapters memo (476-479)
RECURSIVE Insert(_, _)
Insert(x, sorted) ==
    IF sorted = <<>> THEN <<x>>
    ELSE IF x < Head(sorted) THEN <<x>> \o sorted
    ELSE <<Head(sorted)>> \o Insert(x, Tail(sorted))

RECURSIVE SortAsc(_)
SortAsc(s) == IF s = <<>> THEN <<>> ELSE Insert(s[Len(s)], SortAsc(SubSeq(s, 1, Len(s) - 1)))

\* variant of ActiveChapters that keeps the metadata order
ActiveChaptersUnsorted(meta, dur) ==
    IF dur = 0 THEN <<>>
    ELSE SelectSeq(meta, LAMBDA st : st < dur)

\* empty until the duration is known, else the metadata chapters that start
\* before the end, ascending by startTime
ActiveChapters(meta, dur) ==
    IF dur = 0 THEN <<>>
    ELSE SortAsc(SelectSeq(meta, LAMBDA st : st < dur))

\* what computing the memo for duration dur leaves in the metadata array:
\* filter() returns a new array, so sort() reorders the copy only
SourceAfterMemo(meta, dur) == meta

\* ------------------------------------------------- the media element
\* HTMLMediaElement.play(): refused outright when the source is unsupported
\* (error code 4); otherwise paused becomes false, and a medium that has
\* ended restarts from 0
ElementPlay(e) ==
    IF e.error = 4 THEN e
    ELSE [e EXCEPT !.paused = FALSE,
                   !.currentTime = IF e.ready /\ @ = MediaDuration THEN 0 ELSE @]

\* HTMLMediaElement.pause()
ElementPause(e) == [e EXCEPT !.paused = TRUE]

\* assignment to HTMLMediaElement.currentTime: clamped to [0, duration];
\* before the metadata is known the position stays 0
ElementSeek(e, t) ==
    [e EXCEPT !.currentTime = IF e.ready THEN Max(0, Min(t, MediaDuration)) ELSE 0]

\* pause() rejects a pending play() promise with AbortError
AbortedByPause(p) == IF p = "pending" THEN "aborted" ELSE p

\* variant of togglePlay that branches on the isPlaying flag instead of
\* the engine's paused flag
togglePlayByFlag ==
    IF videoRef = "null"
       THEN UNCHANGED <<v, isPlaying, autoplay>>
       ELSE IF ~isPlaying
            THEN /\ v' = ElementPlay(v)
                 /\ isPlaying' = TRUE
                 /\ UNCHANGED autoplay
            ELSE /\ v' = ElementPause(v)
                 /\ isPlaying' = FALSE
                 /\ autoplay' = AbortedByPause(autoplay)

\* ------------------------------------------- Player: transport (559-568)
\* togglePlay
togglePlay ==
    IF videoRef = "null"
       THEN UNCHANGED <<v, isPlaying, autoplay>>
       ELSE IF v.paused
            THEN /\ v' = ElementPlay(v)
                 /\ isPlaying' = TRUE
                 /\ UNCHANGED autoplay
            ELSE /\ v' = ElementPause(v)
                 /\ isPlaying' = FALSE
                 /\ autoplay' = AbortedByPause(autoplay)

\* ------------------------------ Player: engine event listeners (727-773)
\* onLoadedMetadata: setDuration(v.duration), then v.play() with then/catch.
\* The host may refuse to start playback without a user gesture
\* (NotAllowedError): the promise is then rejected and paused stays true.
onLoadedMetadata ==
    /\ Mounted /\ Quiet
    /\ v.listeners /\ ~v.ready /\ v.error = 0
    /\ duration' = MediaDuration
    /\ library' = [i \in 1..Len(library) |->
                     IF library[i].id = currentVideo
                     THEN [library[i] EXCEPT
                             !.chapters = SourceAfterMemo(@, MediaDuration)]
                     ELSE library[i]]
    /\ \/ /\ v' = ElementPlay([v EXCEPT !.ready = TRUE])
          /\ autoplay' = "pending"
       \/ /\ v.paused
          /\ v' = [v EXCEPT !.ready = TRUE]
          /\ autoplay' = "refused"
    /\ UNCHANGED <<view, currentVideo, thumbnailJobs, sessions, transportVars, overlayVars, currentTime, settingVars,
                   hideVars, hostVars>>

\* variant of playThen whose callback does not mark the session playing
playThenWithoutUpdate ==
    /\ Mounted
    /\ autoplay = "fulfilled"
    /\ autoplay' = "none"
    /\ UNCHANGED <<appVars, transportVars, overlayVars, positionVars,
                   settingVars, hideVars, v, hostVars>>

\* .then(() => setIsPlaying(true))
playThen ==
    /\ Mounted
    /\ autoplay = "fulfilled"
    /\ autoplay' = "none"
    /\ isPlaying' = TRUE
    /\ UNCHANGED <<appVars, isBuffering, error, overlayVars, positionVars,
                   settingVars, hideVars, v, hostVars>>

\* .catch((e) => { if (e.name !== 'AbortError') setIsPlaying(false); })
playCatch ==
    /\ Mounted
    /\ autoplay \in {"refused", "aborted"}
    /\ autoplay' = "none"
    /\ isPlaying' = IF autoplay # "aborted" THEN FALSE ELSE isPlaying
    /\ UNCHANGED <<appVars, isBuffering, error, overlayVars, positionVars,
                   settingVars, hideVars, v, hostVars>>

\* onTimeUpdate: setCurrentTime(v.currentTime)
onTimeUpdate ==
    /\ Mounted /\ Quiet
    /\ v.listeners /\ v.ready
    /\ currentTime # v.currentTime
    /\ currentTime' = v.currentTime
    /\ UNCHANGED <<appVars, transportVars, overlayVars, duration, settingVars,
                   hideVars, v, autoplay, hostVars>>

\* onWaiting: setIsBuffering(true); the engine ran out of data while playing
onWaiting ==
    /\ Mounted /\ Quiet
    /\ v.listeners /\ v.ready /\ ~v.paused /\ v.error = 0
    /\ isBuffering' = TRUE
    /\ UNCHANGED <<appVars, isPlaying, error, overlayVars, positionVars,
                   settingVars, hideVars, v, autoplay, hostVars>>

\* onPlaying: setIsBuffering(false); the engine (re)starts rendering, which
\* also fulfils a pending play() promise
onPlaying ==
    /\ Mounted /\ Quiet
    /\ v.listeners /\ v.ready /\ ~v.paused /\ v.error = 0
    /\ isBuffering' = FALSE
    /\ autoplay' = IF autoplay = "pending" THEN "fulfilled" ELSE autoplay
    /\ UNCHANGED <<appVars, isPlaying, error, overlayVars, positionVars,
                   settingVars, hideVars, v, hostVars>>

\* onEnded: setIsPlaying(false); the engine reached the end and paused itself
onEnded ==
    /\ Mounted /\ Quiet
    /\ v.listeners /\ v.ready /\ ~v.paused /\ v.error = 0
    /\ v.currentTime = MediaDuration
    /\ v' = [v EXCEPT !.paused = TRUE]
    /\ isPlaying' = FALSE
    /\ UNCHANGED <<appVars, isBuffering, error, overlayVars, positionVars,
                   settingVars, hideVars, autoplay, hostVars>>

\* variant of ErrorMessage in which case 3 falls through to case 4
ErrorMessageFallThrough(code) ==
    CASE code = 2 -> MsgNetwork
      [] code = 3 -> MsgUnsupported
      [] code = 4 -> MsgUnsupported
      [] OTHER -> MsgUnknown

\* the message onError chooses for a MediaError code (the switch, 745-760)
ErrorMessage(code) ==
    CASE code = 2 -> MsgNetwork
      [] code = 3 -> MsgDecode
      [] code = 4 -> MsgUnsupported
      [] OTHER -> MsgUnknown

\* variant of ErrorUpdate that leaves the buffering flag alone
ErrorUpdateKeepsBuffering(code) ==
    IF code = 1
    THEN UNCHANGED transportVars
    ELSE /\ error' = ErrorMessage(code)
         /\ isPlaying' = FALSE
         /\ UNCHANGED isBuffering

\* the state updates of onError for v.error.code = code
ErrorUpdate(code) ==
    IF code = 1
    THEN UNCHANGED transportVars
    ELSE /\ error' = ErrorMessage(code)
         /\ isPlaying' = FALSE
         /\ isBuffering' = FALSE

\* onError: the engine sets v.error and fires 'error'
onError(code) ==
    /\ Mounted /\ Quiet
    /\ v.listeners /\ v.error = 0
    /\ v' = [v EXCEPT !.error = code]
    /\ ErrorUpdate(code)
    /\ UNCHANGED <<appVars, overlayVars, positionVars, settingVars, hideVars,
                   autoplay, hostVars>>

\* the engine renders one more second of the medium (no listener involved)
Playback ==
    /\ Mounted /\ Quiet
    /\ v.ready /\ ~v.paused /\ v.error = 0
    /\ v.currentTime < MediaDuration
    /\ v' = [v EXCEPT !.currentTime = @ + 1]
    /\ UNCHANGED <<appVars, playerVars, autoplay, hostVars>>

\* -------------------------------------------- Player: derived values
\* chapters (useMemo, 476-479): empty until the duration is known, else the
\* metadata chapters that start before the end, ascending by startTime
chapters == ActiveChapters(MetadataChapters, duration)

\* variant of ChapterAt without the reverse(): the first chapter started
ChapterAtFirst(list, t) ==
    LET hits == {i \in 1..Len(list) : t >= list[i]}
    IN  IF hits = {} THEN 0 ELSE CHOOSE i \in hits : \A j \in hits : i <= j

\* [...list].reverse().find(c => t >= c.startTime): index of the chapter
\* found, 0 for none (currentChapter, hoverChapter, skipPrevChapter)
ChapterAt(list, t) ==
    LET hits == {i \in 1..Len(list) : t >= list[i]}
    IN  IF hits = {} THEN 0 ELSE CHOOSE i \in hits : \A j \in hits : j <= i

currentChapter == ChapterAt(chapters, currentTime)

\* hoverChapter (486-489) for the scrub-bar hover time
hoverChapter(hoverTime) == ChapterAt(chapters, hoverTime)

\* showSkipIntro (473-474)
showSkipIntro ==
    /\ Video.intro # <<>>
    /\ currentTime >= Video.intro[1]
    /\ currentTime < Video.intro[2]

\* the top bar and the bottom controls take pointer events only while
\* showControls && !error (their className, 1000 and 1249)
ControlsShown == showControls /\ error = NoError

\* ------------------------------------- Player: auto-hide (543-557, 603-607)
\* window.setTimeout: a new pending callback with an id no pending one has
FreshTimerId(T) ==
    CHOOSE n \in 1..(Cardinality(T) + 1) :
        /\ \A t \in T : t.id # n
        /\ \A m \in 1..(n - 1) : \E t \in T : t.id = m

\* window.clearTimeout(id)
ClearTimeout(T, id) == {t \in T : t.id # id}

\* if (controlsTimeoutRef.current) clearTimeout(controlsTimeoutRef.current)
ClearPending(T, ref) == IF ref # 0 THEN ClearTimeout(T, ref) ELSE T

\* handleMouseMove
handleMouseMove ==
    LET cleared == ClearPending(timers, controlsTimeoutRef)
        id == FreshTimerId(cleared)
    IN  /\ showControls' = TRUE
        /\ cursor' = "default"
        /\ IF isPlaying /\ ~showChapterList /\ ~showSettings
           THEN /\ timers' = cleared \cup
                      {[id |-> id, delay |-> AmbientHideDelay, owner |-> sessions]}
                /\ controlsTimeoutRef' = id
           ELSE /\ timers' = cleared
                /\ UNCHANGED controlsTimeoutRef

\* variant of showControlsTemp that arms the timer without cancelling the
\* pending one
showControlsTempNoClear ==
    LET id == FreshTimerId(timers)
    IN  /\ showControls' = TRUE
        /\ timers' = timers \cup
              {[id |-> id, delay |-> TempHideDelay, owner |-> sessions]}
        /\ controlsTimeoutRef' = id

\* showControlsTemp
showControlsTemp ==
    LET cleared == ClearPending(timers, controlsTimeoutRef)
        id == FreshTimerId(cleared)
    IN  /\ showControls' = TRUE
        /\ timers' = cleared \cup
              {[id |-> id, delay |-> TempHideDelay, owner |-> sessions]}
        /\ controlsTimeoutRef' = id

\* The callback of a pending timer runs.  Both callbacks call
\* setShowControls(false), which React ignores once the Player that armed the
\* timer is unmounted; the 3-second one also sets document.body.style.cursor.
TimerCallback(t) ==
    /\ showControls' = IF Mounted /\ t.owner = sessions THEN FALSE ELSE showControls
    /\ cursor' = IF t.delay = AmbientHideDelay THEN "none" ELSE cursor

\* a pending timeout expires and its callback runs
TimerFire ==
    /\ Quiet
    /\ \E t \in timers :
          /\ timers' = timers \ {t}
          /\ TimerCallback(t)
    /\ UNCHANGED <<appVars, transportVars, overlayVars, positionVars, settingVars,
                   controlsTimeoutRef, v, autoplay, statsVars, now, srtText, fullscreenElement>>

\* onMouseMove of the Player container
MouseMove ==
    /\ Mounted /\ Quiet
    /\ handleMouseMove
    /\ UNCHANGED <<appVars, transportVars, overlayVars, positionVars, settingVars,
                   v, autoplay, statsVars, now, srtText, fullscreenElement>>

\* onMouseLeave of the Player container (853)
MouseLeave ==
    /\ Mounted /\ Quiet
    /\ isPlaying /\ ~showChapterList /\ ~showSettings
    /\ showControls' = FALSE
    /\ UNCHANGED <<appVars, transportVars, overlayVars, positionVars, settingVars,
                   controlsTimeoutRef, v, autoplay, hostVars>>

\* ---------------------------------------------- Player: togglePlay callers
TogglePlayFrame ==
    UNCHANGED <<appVars, isBuffering, error, overlayVars, positionVars, settingVars,
                hideVars, hostVars>>

\* handleKeyDown, case ' ' and 'k'
KeyTogglePlay == Mounted /\ Quiet /\ togglePlay /\ TogglePlayFrame

\* the Play / Pause button (1377), usable while the controls are shown
ClickPlayButton == Mounted /\ Quiet /\ ControlsShown /\ togglePlay /\ TogglePlayFrame

\* onClick of the <video> (860); the error overlay covers it
ClickVideo == Mounted /\ Quiet /\ error = NoError /\ togglePlay /\ TogglePlayFrame

\* onClick of the container (854), reached by clicks outside the <video>,
\* the error overlay included
ClickContainer ==
    /\ Mounted /\ Quiet
    /\ ~showControls /\ ~showChapterList /\ ~showSettings
    /\ togglePlay /\ TogglePlayFrame

\* ------------------------------------- Player: realtime stats (396-460)
\* the milliseconds that must have elapsed for a new fps value
FpsWindow == 1000

\* Math.round(n / d) for d > 0: the nearest integer, halves upwards
Round(n, d) == (2 * n + d) \div (2 * d)

\* the buffer-health loop: the end of the first buffered range holding t,
\* 0 when there is none
BufferEnd(ranges, t) ==
    LET holding == {i \in 1..Len(ranges) : ranges[i][1] <= t /\ ranges[i][2] >= t}
    IN  IF holding = {} THEN 0
        ELSE ranges[CHOOSE i \in holding : \A j \in holding : i <= j][2]

\* variant of BufferAhead without the clamp at 0
BufferAheadUnclamped(ranges, t) == BufferEnd(ranges, t) - t

\* buffer: Math.max(0, bufferEnd - v.currentTime)
BufferAhead(ranges, t) == Max(0, BufferEnd(ranges, t) - t)

\* the FPS calculation (427-438) on the fpsTracker ref, for the decoded
\* frame count total read at time t
TrackerAfter(tr, total, t) ==
    LET delta == t - tr.lastTime
    IN  IF delta >= FpsWindow
        THEN [frames |-> total, lastTime |-> t,
              value |-> Round((total - tr.frames) * 1000, delta)]
        ELSE IF tr.frames = 0 /\ total > 0
             THEN [tr EXCEPT !.frames = total]
             ELSE tr

\* updateStats, run on the tracker tr: one sample of the engine
updateStats(tr) ==
    /\ fpsTracker' = TrackerAfter(tr, v.totalFrames, now)
    /\ realtimeStats' =
          [totalFrames |-> v.totalFrames,
           buffer |-> BufferAhead(v.buffered, v.currentTime),
           fps |-> fpsTracker'.value]

\* the animation frame requested by updateStats arrives: it samples and
\* requests the next one
Poll ==
    /\ Mounted /\ Quiet
    /\ sessions \in frames
    /\ updateStats(fpsTracker)
    /\ UNCHANGED <<appVars, playerVars, v, autoplay, timers, frames, cursor,
                   fullscreenElement, now, srtText>>

\* time passes
ClockSteps == {500, 700}

ClockAdvance ==
    /\ \E d \in ClockSteps : now + d <= MaxNow /\ now' = now + d
    /\ UNCHANGED <<appVars, playerVars, v, autoplay, timers, statsVars, cursor,
                   fullscreenElement, srtText>>

\* the engine decodes a batch of frames while it plays
FrameBatch == 15

Decode ==
    /\ Mounted /\ Quiet
    /\ v.ready /\ ~v.paused /\ v.error = 0
    /\ v.totalFrames + FrameBatch <= MaxDecoded
    /\ v' = [v EXCEPT !.totalFrames = @ + FrameBatch]
    /\ UNCHANGED <<appVars, playerVars, autoplay, hostVars>>

\* the normalized TimeRanges objects over a medium of length len: ascending,
\* non-empty ranges that neither overlap nor touch
RangesUpTo(len) ==
    LET one == {<<r>> : r \in {<<a, b>> : a \in 0..len, b \in 0..len}}
        two == {<<r, q>> : r \in {<<a, b>> : a \in 0..len, b \in 0..len},
                           q \in {<<a, b>> : a \in 0..len, b \in 0..len}}
    IN  {<<>>}
        \cup {s \in one : s[1][1] < s[1][2]}
        \cup {s \in two : s[1][1] < s[1][2] /\ s[1][2] < s[2][1] /\ s[2][1] < s[2][2]}

\* the engine downloads or evicts media data
Progress ==
    /\ Mounted /\ Quiet
    /\ v.ready /\ v.error = 0
    /\ \E r \in RangesUpTo(MediaDuration) \ {v.buffered} :
          v' = [v EXCEPT !.buffered = r]
    /\ UNCHANGED <<appVars, playerVars, autoplay, hostVars>>

\* --------------------------------------------------- Player: overlay panels
\* the realtime-stats effect (396-460) runs when showStats changes: it polls
\* once and requests a frame when true, its cleanup cancels the frame
StatsEffect(shown) ==
    IF shown
    THEN /\ updateStats([frames |-> 0, lastTime |-> now, value |-> 0])
         /\ frames' = frames \cup {sessions}
    ELSE /\ frames' = frames \ {sessions}
         /\ UNCHANGED <<fpsTracker, realtimeStats>>

OverlayFrame ==
    UNCHANGED <<appVars, transportVars, positionVars, settingVars, hideVars, v,
                autoplay, timers, cursor, fullscreenElement, now, srtText>>

\* the Chapters button of the top bar (1030)
ToggleChapterList ==
    /\ Mounted /\ Quiet /\ ControlsShown
    /\ Len(chapters) > 0
    /\ showChapterList' = ~showChapterList
    /\ showStats' = FALSE
    /\ showSettings' = FALSE
    /\ StatsEffect(FALSE)
    /\ OverlayFrame

\* the Stats-for-Nerds button of the top bar (1039)
ToggleStats ==
    /\ Mounted /\ Quiet /\ ControlsShown
    /\ showStats' = ~showStats
    /\ showChapterList' = FALSE
    /\ showSettings' = FALSE
    /\ StatsEffect(~showStats)
    /\ OverlayFrame

\* the Settings button of the bottom controls (1458)
ToggleSettings ==
    /\ Mounted /\ Quiet /\ ControlsShown
    /\ showSettings' = ~showSettings
    /\ showStats' = FALSE
    /\ showChapterList' = FALSE
    /\ StatsEffect(FALSE)
    /\ OverlayFrame

\* click on the current-chapter title (1255)
ClickChapterTitle ==
    /\ Mounted /\ Quiet /\ ControlsShown
    /\ currentChapter # 0
    /\ showChapterList' = TRUE
    /\ UNCHANGED <<showStats, showSettings, statsVars>>
    /\ OverlayFrame

\* the close button of the chapter sidebar (940)
CloseChapterList ==
    /\ Mounted /\ Quiet
    /\ showChapterList /\ error = NoError
    /\ showChapterList' = FALSE
    /\ UNCHANGED <<showStats, showSettings, statsVars>>
    /\ OverlayFrame

\* the close button of the settings panel (1070)
CloseSettings ==
    /\ Mounted /\ Quiet /\ ControlsShown
    /\ showSettings
    /\ showSettings' = FALSE
    /\ UNCHANGED <<showStats, showChapterList, statsVars>>
    /\ OverlayFrame

\* onClose of NerdStats (1060), shown while showStats && showControls && !error
CloseStats ==
    /\ Mounted /\ Quiet /\ ControlsShown
    /\ showStats
    /\ showStats' = FALSE
    /\ StatsEffect(FALSE)
    /\ UNCHANGED <<showChapterList, showSettings>>
    /\ OverlayFrame

\* ------------------------------------------ Player: fullscreen (570-578)
\* toggleFullscreen; the host may deny requestFullscreen()
toggleFullscreen ==
    IF ~fullscreenElement
    THEN /\ fullscreenElement' \in BOOLEAN
         /\ isFullscreen' = TRUE
    ELSE /\ fullscreenElement' = FALSE
         /\ isFullscreen' = FALSE

FullscreenFrame ==
    UNCHANGED <<appVars, transportVars, overlayVars, positionVars, volumeVars, subtitleVars,
                hideVars, v, autoplay, timers, statsVars, now, srtText, cursor>>

\* handleKeyDown, case 'f'
KeyFullscreen == Mounted /\ Quiet /\ toggleFullscreen /\ FullscreenFrame

\* the fullscreen button (1466)
ClickFullscreen == Mounted /\ Quiet /\ ControlsShown /\ toggleFullscreen /\ FullscreenFrame

\* the host leaves fullscreen on its own (its own Escape handling, F11, a
\* window switch); the Player registers no fullscreenchange listener
HostExitsFullscreen ==
    /\ Mounted /\ Quiet
    /\ fullscreenElement
    /\ fullscreenElement' = FALSE
    /\ UNCHANGED isFullscreen
    /\ FullscreenFrame

\* ------------------------------------------------------ leaving the session
\* the back button of the top bar (1004)
ClickBack == Mounted /\ Quiet /\ ControlsShown /\ backToLibrary

\* the Back-to-Library button of the error overlay (872)
ClickErrorBack == Mounted /\ Quiet /\ error # NoError /\ backToLibrary

\* variant of KeyEscape that closes every open panel at once
KeyEscapeClosesPanels ==
    /\ Mounted /\ Quiet
    /\ IF showChapterList \/ showSettings
       THEN /\ showChapterList' = FALSE
            /\ showSettings' = FALSE
            /\ UNCHANGED <<showStats, statsVars>>
            /\ OverlayFrame
       ELSE IF fullscreenElement
       THEN toggleFullscreen /\ FullscreenFrame
       ELSE backToLibrary

\* handleKeyDown, case 'escape': the first applicable of four
KeyEscape ==
    /\ Mounted /\ Quiet
    /\ IF showChapterList
       THEN /\ showChapterList' = FALSE
            /\ UNCHANGED <<showStats, showSettings, statsVars>>
            /\ OverlayFrame
       ELSE IF showSettings
       THEN /\ showSettings' = FALSE
            /\ UNCHANGED <<showStats, showChapterList, statsVars>>
            /\ OverlayFrame
       ELSE IF fullscreenElement
       THEN toggleFullscreen /\ FullscreenFrame
       ELSE backToLibrary

\* ------------------------------------------ Player: seeking (597-647)
NavFrame ==
    UNCHANGED <<appVars, transportVars, overlayVars, duration, settingVars,
                autoplay, statsVars, now, srtText, cursor, fullscreenElement>>

\* seek(delta): videoRef.current.currentTime += delta; showControlsTemp()
seek(delta) ==
    /\ v' = ElementSeek(v, v.currentTime + delta)
    /\ showControlsTemp
    /\ UNCHANGED currentTime

\* handleKeyDown, cases 'arrowleft' / 'j' and 'arrowright' / 'l'
KeySeek ==
    /\ Mounted /\ Quiet
    /\ \E delta \in {0 - SeekStep, SeekStep} : seek(delta)
    /\ NavFrame

\* skipIntro (called only while an intro is defined)
skipIntro ==
    /\ Video.intro # <<>>
    /\ v' = ElementSeek(v, Video.intro[2])
    /\ currentTime' = Video.intro[2]
    /\ showControlsTemp

\* handleKeyDown, case 's': only while the offer is shown
KeySkipIntro == Mounted /\ Quiet /\ showSkipIntro /\ skipIntro /\ NavFrame

\* the Skip Intro button (922), rendered while !error and clickable while
\* showSkipIntro
ClickSkipIntro ==
    Mounted /\ Quiet /\ error = NoError /\ showSkipIntro /\ skipIntro /\ NavFrame

\* variant of NextChapterIndex without the one-second guard band
NextChapterIndexNoGuard(list, t) ==
    LET later == {i \in 1..Len(list) : list[i] > t}
    IN  IF later = {} THEN 0 ELSE CHOOSE i \in later : \A j \in later : i <= j

\* chapters.find(c => c.startTime > currentTime + 1): its index, 0 for none
NextChapterIndex(list, t) ==
    LET later == {i \in 1..Len(list) : list[i] > t + 1}
    IN  IF later = {} THEN 0 ELSE CHOOSE i \in later : \A j \in later : i <= j

\* skipNextChapter
skipNextChapter ==
    IF Len(chapters) = 0
    THEN UNCHANGED <<v, currentTime, hideVars, timers>>
    ELSE LET next == NextChapterIndex(chapters, currentTime)
         IN  /\ IF next # 0
                THEN /\ v' = ElementSeek(v, chapters[next])
                     /\ currentTime' = chapters[next]
                ELSE UNCHANGED <<v, currentTime>>
             /\ showControlsTemp

\* variant of PrevChapterTarget that always restarts the current chapter
PrevChapterTargetRestart(list, t) ==
    LET current == ChapterAt(list, t)
    IN  IF current = 0 THEN 0 ELSE list[current]

\* the seek target of skipPrevChapter
PrevChapterTarget(list, t) ==
    LET current == ChapterAt(list, t)
    IN  IF current = 0 THEN 0
        ELSE IF t - list[current] < 3
             THEN IF current - 1 >= 1 THEN list[current - 1] ELSE 0
             ELSE list[current]

\* skipPrevChapter: setCurrentTime reads the engine position back
skipPrevChapter ==
    IF Len(chapters) = 0
    THEN UNCHANGED <<v, currentTime, hideVars, timers>>
    ELSE /\ v' = ElementSeek(v, PrevChapterTarget(chapters, currentTime))
         /\ currentTime' = v'.currentTime
         /\ showControlsTemp

\* handleKeyDown, case 'n' with shift
KeyNextChapter == Mounted /\ Quiet /\ skipNextChapter /\ NavFrame

\* handleKeyDown, case 'p' with shift
KeyPrevChapter == Mounted /\ Quiet /\ skipPrevChapter /\ NavFrame

\* the skip_next button (1388), rendered while chapters.length > 0
ClickNextChapter ==
    Mounted /\ Quiet /\ ControlsShown /\ Len(chapters) > 0 /\ skipNextChapter /\ NavFrame

\* the skip_previous button (1367), rendered while chapters.length > 0
ClickPrevChapter ==
    Mounted /\ Quiet /\ ControlsShown /\ Len(chapters) > 0 /\ skipPrevChapter /\ NavFrame

\* handleSeekRange: the scrub bar (min 0, max duration) is moved to time
handleSeekRange(time) ==
    /\ v' = ElementSeek(v, time)
    /\ currentTime' = time
    /\ UNCHANGED <<hideVars, timers>>

SeekRange ==
    /\ Mounted /\ Quiet /\ ControlsShown
    /\ \E time \in 0..duration : handleSeekRange(time)
    /\ NavFrame

\* a chapter of the chapter sidebar is clicked (953-959)
ClickChapterItem ==
    /\ Mounted /\ Quiet
    /\ showChapterList /\ error = NoError
    /\ \E i \in 1..Len(chapters) :
          /\ v' = ElementSeek(v, chapters[i])
          /\ currentTime' = chapters[i]
    /\ UNCHANGED <<hideVars, timers>>
    /\ NavFrame

\* ------------------------------------------- Player: volume (589-595)
\* variant of changeVolume that stores the sum as it is
changeVolumeUnclamped(delta) ==
    LET newVol == v.volume + delta
    IN  /\ v' = [v EXCEPT !.volume = newVol]
        /\ volume' = newVol
        /\ isMuted' = (newVol = 0)

\* changeVolume(delta)
changeVolume(delta) ==
    LET newVol == Min(Max(v.volume + delta, 0), VolumeMax)
    IN  /\ v' = [v EXCEPT !.volume = newVol]
        /\ volume' = newVol
        /\ isMuted' = (newVol = 0)

\* handleKeyDown, cases 'arrowup' and 'arrowdown': changeVolume, then
\* showControlsTemp
KeyVolume ==
    /\ Mounted /\ Quiet
    /\ \E delta \in {VolumeStep, 0 - VolumeStep} : changeVolume(delta)
    /\ showControlsTemp
    /\ UNCHANGED <<appVars, transportVars, overlayVars, positionVars, isFullscreen, subtitleVars,
                   autoplay, statsVars, now, srtText, cursor, fullscreenElement>>

\* toggleMute (580-587)
toggleMute ==
    LET newMuted == ~isMuted
    IN  /\ v' = [v EXCEPT !.muted = newMuted]
        /\ isMuted' = newMuted
        /\ volume' = IF newMuted THEN 0 ELSE VolumeMax

VolumeFrame ==
    UNCHANGED <<appVars, transportVars, overlayVars, positionVars, isFullscreen,
                subtitleVars, hideVars, autoplay, hostVars>>

\* handleKeyDown, case 'm'
KeyMute == Mounted /\ Quiet /\ toggleMute /\ VolumeFrame

\* the volume button (1398), usable while the controls are shown
ClickMute == Mounted /\ Quiet /\ ControlsShown /\ toggleMute /\ VolumeFrame

\* the positions of the volume slider (1406-1413) that are used
SliderStops == {0, VolumeMax \div 2, VolumeMax}

\* handleVolumeRange(e) (811-819)
handleVolumeRange(vol) ==
    /\ v' = [v EXCEPT !.volume = vol, !.muted = (vol = 0)]
    /\ volume' = vol
    /\ isMuted' = (vol = 0)

\* onChange of the volume slider
VolumeRange ==
    /\ Mounted /\ Quiet /\ ControlsShown
    /\ \E vol \in SliderStops : handleVolumeRange(vol)
    /\ VolumeFrame

\* ------------------------------------------------ parseSRT (216-256)
\* A file is a sequence of lines.  A line is blank, whitespace only, a run
\* of digits, a line holding '-->' with the two time strings around it, or
\* other text (raw, and plain: raw without its HTML tags).
Blank == [kind |-> "blank", text |-> ""]
Space == [kind |-> "space", text |-> " "]
Index(n) == [kind |-> "digits", text |-> n]
Text(raw, plain) == [kind |-> "text", text |-> raw, plain |-> plain]
TimeLine(raw, start, end) ==
    [kind |-> "time", text |-> raw, start |-> start, end |-> end]
NL == [kind |-> "nl", text |-> "\n"]

\* what Number() and parseInt() return for text that is not a number, and
\* what arithmetic on undefined returns
NaN == -1

\* A time string: empty, or fields separated by ':' (digits, or NaN for
\* anything else) and at most one field after ',' or '.'
NoStamp == [empty |-> TRUE, hms |-> <<>>, ms |-> <<>>]
Stamp(hms, ms) == [empty |-> FALSE, hms |-> hms, ms |-> ms]
At(sec) == Stamp(<<0, 0, sec>>, <<0>>)

\* parseTime (237-244), in milliseconds
parseTime(timeStr) ==
    IF timeStr.empty THEN 0
    ELSE LET part(i) == IF i <= Len(timeStr.hms) THEN timeStr.hms[i] ELSE NaN
             ms == IF timeStr.ms = <<>> THEN 0 ELSE timeStr.ms[1]
         IN  IF part(1) = NaN \/ part(2) = NaN \/ part(3) = NaN \/ ms = NaN
             THEN NaN
             ELSE part(1) * 3600000 + part(2) * 60000 + part(3) * 1000 + ms

\* the content of the file: its lines joined by newlines
RECURSIVE Content(_)
Content(lines) ==
    IF lines = <<>> THEN <<>>
    ELSE LET first == IF Head(lines).kind = "blank" THEN <<>> ELSE <<Head(lines)>>
         IN  IF Len(lines) = 1 THEN first
             ELSE first \o <<NL>> \o Content(Tail(lines))

\* normalized.split('\n\n') (220): cur is the piece being collected
RECURSIVE SplitBlocks(_, _)
SplitBlocks(content, cur) ==
    IF content = <<>> THEN <<cur>>
    ELSE IF Len(content) >= 2 /\ content[1] = NL /\ content[2] = NL
    THEN <<cur>> \o SplitBlocks(SubSeq(content, 3, Len(content)), <<>>)
    ELSE SplitBlocks(Tail(content), Append(cur, Head(content)))

\* block.trim() (223)
Whitespace(c) == c.kind \in {"nl", "space"}

RECURSIVE TrimStart(_)
TrimStart(block) ==
    IF block # <<>> /\ Whitespace(Head(block)) THEN TrimStart(Tail(block))
    ELSE block

RECURSIVE TrimEnd(_)
TrimEnd(block) ==
    IF block # <<>> /\ Whitespace(block[Len(block)])
    THEN TrimEnd(SubSeq(block, 1, Len(block) - 1))
    ELSE block

Trim(block) == TrimEnd(TrimStart(block))

\* split('\n') (223): cur is the line being collected
RECURSIVE SplitLines(_, _)
SplitLines(block, cur) ==
    IF block = <<>> THEN <<cur>>
    ELSE IF Head(block) = NL THEN <<cur>> \o SplitLines(Tail(block), Blank)
    ELSE SplitLines(Tail(block), Head(block))

\* the lines of one block
BlockLines(block) == SplitLines(Trim(block), Blank)

\* lines.slice(timeIndex + 1).join('\n') with the tags removed (248)
StripTags(line) == IF line.kind = "text" THEN line.plain ELSE line.text

RECURSIVE JoinText(_)
JoinText(lines) ==
    IF lines = <<>> THEN ""
    ELSE IF Len(lines) = 1 THEN StripTags(lines[1])
    ELSE StripTags(lines[1]) \o "\n" \o JoinText(Tail(lines))

\* the body of blocks.forEach (222-253): cues after the block
ParseBlock(cues, block) ==
    LET lines == BlockLines(block)
    IN  IF Len(lines) < 2 THEN cues
        ELSE LET timeIndex == IF lines[1].kind = "digits" /\ lines[2].kind = "time"
                              THEN 2 ELSE 1
                 timeLine == lines[timeIndex]
             IN  IF timeLine.kind # "time" THEN cues
                 ELSE LET start == parseTime(timeLine.start)
                          end == parseTime(timeLine.end)
                          text == JoinText(SubSeq(lines, timeIndex + 1, Len(lines)))
                      IN  IF start # NaN /\ end # NaN
                          THEN Append(cues, [start |-> start, end |-> end, text |-> text])
                          ELSE cues

\* variant of ParseBlocks that gives up at the first block without a cue
RECURSIVE ParseBlocksUntilBad(_, _)
ParseBlocksUntilBad(cues, blocks) ==
    IF blocks = <<>> \/ ParseBlock(cues, Head(blocks)) = cues THEN cues
    ELSE ParseBlocksUntilBad(ParseBlock(cues, Head(blocks)), Tail(blocks))

\* blocks.forEach (222)
RECURSIVE ParseBlocks(_, _)
ParseBlocks(cues, blocks) ==
    IF blocks = <<>> THEN cues
    ELSE ParseBlocks(ParseBlock(cues, Head(blocks)), Tail(blocks))

\* parseSRT(content), for the lines of a file
parseSRT(lines) == ParseBlocks(<<>>, SplitBlocks(Content(lines), <<>>))

\* ---------------------------------------- Player: subtitles (492-538)
\* The subtitle files the user can pick, by name, with their lines.  Cues
\* are in file order; a file may hold overlapping cues and cues without
\* text.
SubtitleFiles ==
    [a |-> << Index("1"), TimeLine("0 --> 1", At(0), At(1)), Text("a1", "a1"),
              Blank,
              Index("2"), TimeLine("2 --> 2", At(2), At(2)) >>,
     b |-> << TimeLine("1 --> 2", At(1), At(2)), Text("<i>b1</i>", "b1"),
              Blank, Blank,
              TimeLine("1 --> 3", At(1), At(3)), Text("b2", "b2") >>]

\* the file the user has written
WrittenFile == "c"

\* FileReader.readAsText(file)
FileText(name) == IF name = WrittenFile THEN srtText ELSE SubtitleFiles[name]

\* the blocks a written file is put together from
SrtBlocks ==
    { << Index("1"), TimeLine("1 --> 2", At(1), At(2)), Text("x", "x") >>,
      << TimeLine("2 --> 3", At(2), At(3)), Text("<b>y</b>", "y") >>,
      << Index("7"), TimeLine("1 --> 2", At(1), At(2)) >>,
      << TimeLine("1 --> 2", At(1), At(2)) >>,
      << Text("x", "x") >>,
      << Text("x", "x"), Text("<b>y</b>", "y") >>,
      << Text("x", "x"), TimeLine("1 --> 2", At(1), At(2)) >>,
      << TimeLine("00:01 --> 2", Stamp(<<0, 1>>, <<0>>), At(2)), Text("x", "x") >>,
      << TimeLine("1 --> 2,xx", At(1), Stamp(<<0, 0, 2>>, <<NaN>>)), Text("x", "x") >>,
      << TimeLine("--> 2.500", NoStamp, Stamp(<<0, 0, 2>>, <<500>>)), Text("x", "x") >>,
      << Space >>,
      << >> }

\* the user adds a block to the file, after a blank line, before opening a
\* video
WriteSubtitleBlock ==
    /\ view = "library"
    /\ \E block \in SrtBlocks :
          LET text == IF srtText = <<>> THEN block
                      ELSE srtText \o <<Blank>> \o block
          IN  /\ Len(text) <= MaxSrtLines
              /\ srtText' = text
    /\ UNCHANGED <<appVars, playerVars, v, autoplay, timers, statsVars, cursor,
                   fullscreenElement, now>>

\* the text of the first cue of cues with start <= adjustedTime <= end, ''
\* for none; time in seconds, offset in tenths of a second, cues in
\* milliseconds
CueTextAt(cues, time, offset) ==
    LET adjusted == 1000 * time - 100 * offset
        hits == {i \in 1..Len(cues) :
                   adjusted >= cues[i].start /\ adjusted <= cues[i].end}
    IN  IF hits = {} THEN ""
        ELSE cues[CHOOSE i \in hits : \A j \in hits : i <= j].text

\* currentSubtitle as the effect of 530-538 leaves it
currentSubtitle ==
    IF selectedSubtitleTrack = "off" \/ Len(activeCues) = 0 THEN ""
    ELSE CueTextAt(activeCues, currentTime, subtitleOffset)

\* what the subtitle overlay shows (891), '' when it is not rendered
SubtitleShown ==
    IF selectedSubtitleTrack # "off" /\ currentSubtitle # "" /\ error = NoError
    THEN currentSubtitle ELSE ""

\* `upload-${Date.now()}` for an import completing at time t
UploadId(t) == "upload-" \o ToString(t)

\* the settings panel takes pointer events while it is shown (1066)
SettingsShown == showSettings /\ showControls /\ error = NoError

SubtitleFrame ==
    UNCHANGED <<appVars, transportVars, positionVars, volumeVars, isFullscreen,
                hideVars, v, autoplay, hostVars>>

\* the import button of the settings panel (1178) or, with no track yet,
\* toggleSubtitles opened the file dialog and the user picked a file:
\* handleSubtitleFile starts a FileReader on it
PickFile(name) ==
    /\ Mounted /\ Quiet
    /\ SettingsShown \/ (selectedSubtitleTrack = "off" /\ Len(subtitleTracks) = 0)
    /\ Len(subtitleTracks) + Cardinality(readers) < MaxImports
    /\ readers' = readers \cup
          {[name |-> name, pick |-> Len(subtitleTracks) + Cardinality(readers) + 1]}
    /\ UNCHANGED <<subtitleTracks, selectedSubtitleTrack, activeCues, subtitleOffset,
                   overlayVars>>
    /\ SubtitleFrame

PickSubtitleFile == \E name \in DOMAIN SubtitleFiles : PickFile(name)

PickWrittenFile == PickFile(WrittenFile)

\* reader.onload of handleSubtitleFile: one of the pending reads completes
SubtitleLoaded ==
    /\ Mounted /\ Quiet
    /\ \E r \in readers :
          LET newTrackId == UploadId(now)
          IN  /\ readers' = readers \ {r}
              /\ subtitleTracks' =
                    Append(subtitleTracks, [id |-> newTrackId, label |-> r.name])
              /\ selectedSubtitleTrack' = newTrackId
              /\ activeCues' = parseSRT(FileText(r.name))
    /\ showSettings' = TRUE
    /\ UNCHANGED <<showStats, showChapterList, subtitleOffset>>
    /\ SubtitleFrame

\* the selection toggleSubtitles leaves: off when a track is selected, the
\* first track when none is and there are tracks (else the file dialog opens)
ToggledSelection(selected, tracks) ==
    IF selected = "off"
    THEN IF Len(tracks) > 0 THEN tracks[1].id ELSE selected
    ELSE "off"

\* toggleSubtitles
toggleSubtitles ==
    /\ selectedSubtitleTrack' = ToggledSelection(selectedSubtitleTrack, subtitleTracks)
    /\ UNCHANGED <<subtitleTracks, activeCues, subtitleOffset, overlayVars, readers>>
    /\ SubtitleFrame

\* handleKeyDown, case 'c'
KeyToggleSubtitles == Mounted /\ Quiet /\ toggleSubtitles

\* the CC button of the bottom controls (1450)
ClickSubtitles == Mounted /\ Quiet /\ ControlsShown /\ toggleSubtitles

\* a track button of the settings panel (1197-1209)
SelectSubtitleTrack ==
    /\ Mounted /\ Quiet /\ SettingsShown
    /\ \E i \in 1..Len(subtitleTracks) :
          selectedSubtitleTrack' = subtitleTracks[i].id
    /\ UNCHANGED <<subtitleTracks, activeCues, subtitleOffset, overlayVars, readers>>
    /\ SubtitleFrame

\* the Disabled button of the settings panel (1187)
SelectSubtitleOff ==
    /\ Mounted /\ Quiet /\ SettingsShown
    /\ selectedSubtitleTrack' = "off"
    /\ UNCHANGED <<subtitleTracks, activeCues, subtitleOffset, overlayVars, readers>>
    /\ SubtitleFrame

\* the timing-offset buttons (1234, 1236), rendered while a track is selected
OffsetStep ==
    /\ Mounted /\ Quiet /\ SettingsShown
    /\ selectedSubtitleTrack # "off"
    /\ \E delta \in {-1, 1} :
          /\ subtitleOffset + delta \in (0 - MaxOffset)..MaxOffset
          /\ subtitleOffset' = subtitleOffset + delta
    /\ UNCHANGED <<subtitleTracks, selectedSubtitleTrack, activeCues, overlayVars, readers>>
    /\ SubtitleFrame

\* the tile of the episode is clicked
PlayVideo == sessions < MaxSessions /\ playVideo(Catalog[1].id)

\* the tile of the clip without intro and chapters is clicked
PlayClip == sessions < MaxSessions /\ playVideo(Catalog[2].id)

\* the tile of the chaptered feature is clicked
PlayFeature == sessions < MaxSessions /\ playVideo(Catalog[3].id)

\* the engine reports a fatal error
EngineError == \E code \in ErrorCodes : onError(code)

Next ==
    \/ PlayVideo
    \/ ClickBack
    \/ ClickErrorBack
    \/ KeyEscape
    \/ onLoadedMetadata
    \/ playThen
    \/ playCatch
    \/ onTimeUpdate
    \/ onWaiting
    \/ onPlaying
    \/ onEnded
    \/ EngineError
    \/ Playback
    \/ KeyTogglePlay
    \/ ClickPlayButton
    \/ ClickVideo
    \/ ClickContainer
    \/ MouseMove
    \/ MouseLeave
    \/ TimerFire
    \/ ToggleChapterList
    \/ ToggleStats
    \/ ToggleSettings
    \/ ClickChapterTitle
    \/ CloseChapterList
    \/ CloseSettings
    \/ CloseStats
    \/ KeyFullscreen
    \/ ClickFullscreen
    \/ HostExitsFullscreen

Spec == Init /\ [][Next]_vars

\* The auto-hide slice of the Player: playback, pointer activity, the
\* overlay panels the idle timer looks at, and every handler that seeks or
\* changes the volume.
NextControls ==
    \/ PlayVideo
    \/ onLoadedMetadata
    \/ playThen
    \/ playCatch
    \/ onTimeUpdate
    \/ onPlaying
    \/ onEnded
    \/ Playback
    \/ KeyTogglePlay
    \/ ClickPlayButton
    \/ ClickVideo
    \/ ClickContainer
    \/ MouseMove
    \/ MouseLeave
    \/ TimerFire
    \/ ToggleChapterList
    \/ ToggleSettings
    \/ ClickChapterTitle
    \/ CloseChapterList
    \/ CloseSettings
    \/ KeySeek
    \/ KeySkipIntro
    \/ ClickSkipIntro
    \/ KeyNextChapter
    \/ KeyPrevChapter
    \/ ClickNextChapter
    \/ ClickPrevChapter
    \/ SeekRange
    \/ ClickChapterItem
    \/ KeyVolume

SpecControls == Init /\ [][NextControls]_vars

\* The volume slice: the three ways to change volume and mute, while the
\* controls come and go.
NextVolume ==
    \/ PlayVideo
    \/ ClickBack
    \/ onLoadedMetadata
    \/ onPlaying
    \/ playThen
    \/ playCatch
    \/ MouseMove
    \/ TimerFire
    \/ KeyVolume
    \/ KeyMute
    \/ ClickMute
    \/ VolumeRange

SpecVolume == Init /\ [][NextVolume]_vars

\* The fps slice of the realtime-stats loop: the clock, the decoder and the
\* polls while the stats overlay is opened and closed.
NextFps ==
    \/ PlayVideo
    \/ onLoadedMetadata
    \/ onPlaying
    \/ playThen
    \/ playCatch
    \/ ToggleStats
    \/ CloseStats
    \/ Poll
    \/ ClockAdvance
    \/ Decode

SpecFps == Init /\ [][NextFps]_vars

\* The buffer slice of the realtime-stats loop: the playback position, the
\* buffered ranges, the polls, and what shows and hides the stats overlay.
NextBuffer ==
    \/ PlayClip
    \/ ClickBack
    \/ onLoadedMetadata
    \/ onPlaying
    \/ playThen
    \/ playCatch
    \/ Playback
    \/ onTimeUpdate
    \/ EngineError
    \/ MouseMove
    \/ TimerFire
    \/ ToggleStats
    \/ CloseStats
    \/ ToggleSettings
    \/ Poll
    \/ Progress

SpecBuffer == Init /\ [][NextBuffer]_vars

\* The navigation slice of the Player: the playback position, the chapter
\* list, and the handlers that jump between chapters and over the intro.
NextChapters ==
    \/ PlayVideo
    \/ PlayFeature
    \/ onLoadedMetadata
    \/ onPlaying
    \/ playThen
    \/ playCatch
    \/ Playback
    \/ onTimeUpdate
    \/ MouseMove
    \/ TimerFire
    \/ ToggleChapterList
    \/ ClickChapterItem
    \/ SeekRange
    \/ KeySeek
    \/ KeySkipIntro
    \/ ClickSkipIntro
    \/ KeyNextChapter
    \/ KeyPrevChapter
    \/ ClickNextChapter
    \/ ClickPrevChapter

SpecChapters == Init /\ [][NextChapters]_vars

\* The subtitle slice of the Player: the playback position, the settings
\* panel, and the handlers that import, select, toggle and shift subtitles.
NextSubtitles ==
    \/ PlayVideo
    \/ onLoadedMetadata
    \/ onPlaying
    \/ playThen
    \/ playCatch
    \/ Playback
    \/ onTimeUpdate
    \/ ToggleSettings
    \/ CloseSettings
    \/ ClockAdvance
    \/ PickSubtitleFile
    \/ SubtitleLoaded
    \/ KeyToggleSubtitles
    \/ ClickSubtitles
    \/ SelectSubtitleTrack
    \/ SelectSubtitleOff
    \/ OffsetStep

SpecSubtitles == Init /\ [][NextSubtitles]_vars

\* The parser slice: a subtitle file is written block by block, then
\* imported into a session.
NextParse ==
    \/ WriteSubtitleBlock
    \/ PlayVideo
    \/ PickWrittenFile
    \/ SubtitleLoaded

SpecParse == Init /\ [][NextParse]_vars

\* The library slice: the App from its first render, with imports,
\* thumbnails arriving and sessions entered and left.
NextLibrary ==
    \/ FileDrop
    \/ ThumbnailDone
    \/ PlayEntry
    \/ ClickBack
    \/ onLoadedMetadata
    \/ onPlaying
    \/ playThen
    \/ playCatch

SpecLibrary == InitLibrary /\ [][NextLibrary]_vars

\* ===================================================================
\* Properties
\* ===================================================================

\* a step of one of the four callers of togglePlay
TogglePlayStep == KeyTogglePlay \/ ClickPlayButton \/ ClickVideo \/ ClickContainer

\* a step that leaves the player session
ExitStep == ClickBack \/ ClickErrorBack \/ (KeyEscape /\ view' = "library")

\* C1: at most one of the three overlay panels (showStats, showSettings,
\* showChapterList) is open in every reachable state
C1_OverlaysExclusive ==
    /\ ~(showStats /\ showSettings)
    /\ ~(showStats /\ showChapterList)
    /\ ~(showSettings /\ showChapterList)

\* C2: a fatal engine error with a non-abort code, from any prior state,
\* leaves error set to a message, isPlaying = false and isBuffering = false
C2_FatalErrorStops ==
    [][(\E code \in ErrorCodes \ {1} : onError(code))
          => (error' # NoError /\ ~isPlaying' /\ ~isBuffering')]_vars

\* the error arrived while the engine was playing and the UI showed buffering:
\* the engine is still unpaused, the flags are cleared
C2_Witness ==
    /\ Mounted /\ error # NoError
    /\ v.ready /\ ~v.paused
    /\ ~isPlaying /\ ~isBuffering

\* C3: once error is set, isPlaying and isBuffering stay false whatever
\* input or engine callback follows (no transport interaction has an effect)
C3_ErroredBlocksTransport ==
    (Mounted /\ error # NoError) => (~isPlaying /\ ~isBuffering)

\* C4: an error event with code 1 changes no player state; codes 2, 3 and 4
\* set error to three pairwise distinct messages, none of them the message
\* of any other code
C4_ErrorCodes ==
    [][/\ onError(1) => UNCHANGED playerVars
       /\ \A code \in 2..4 :
             onError(code) =>
                /\ error' # NoError
                /\ \A other \in ErrorCodes \ {1, code} : error' # ErrorMessage(other)]_vars

\* the engine reported an abort (code 1) while playing and buffering: no
\* error is shown and the flags are as they were
C4_Witness == Mounted /\ v.error = 1 /\ error = NoError /\ isPlaying /\ isBuffering

\* C5: on metadata-ready the duration is captured and play is requested;
\* isPlaying becomes true when the request resolves, false when it is
\* rejected for a non-abort reason, and an abort rejection changes nothing
C5_Autoplay ==
    [][/\ onLoadedMetadata =>
             /\ duration' = MediaDuration
             /\ autoplay' \in {"pending", "refused"}
             /\ autoplay' = "pending" => ~v'.paused
       /\ (autoplay = "fulfilled" /\ autoplay' = "none" /\ Mounted') => isPlaying'
       /\ (autoplay = "refused" /\ autoplay' = "none" /\ Mounted') => ~isPlaying'
       /\ (autoplay = "aborted" /\ autoplay' = "none" /\ Mounted') => UNCHANGED playerVars]_vars

\* the autoplay request has resolved and its callback is about to mark the
\* session playing
C5_Witness == Mounted /\ autoplay = "fulfilled" /\ ~isPlaying /\ duration = MediaDuration

\* C6: togglePlay with an engine attached requests play and sets isPlaying
\* when the engine is paused, else requests pause and clears isPlaying; with
\* no engine attached it changes nothing
C6_TogglePlay ==
    [][TogglePlayStep =>
          /\ (videoRef = "video" /\ v.paused) =>
                (isPlaying' /\ (v.error # 4 => ~v'.paused))
          /\ (videoRef = "video" /\ ~v.paused) => (~isPlaying' /\ v'.paused)
          /\ videoRef = "null" => UNCHANGED <<v, playerVars>>]_vars

\* play was toggled on before the metadata arrived
C6_Witness == Mounted /\ isPlaying /\ ~v.paused /\ ~v.ready

\* C7: whenever no player session is open the engine is paused, has no
\* source and no listeners: every exit path tears the engine down
C7_TeardownOnExit ==
    ~Mounted => (v.paused /\ ~v.src /\ ~v.listeners)

\* a session was played and left
C7_Witness == view = "library" /\ sessions > 0 /\ currentVideo = 0

\* C8: after teardown no auto-hide timer is pending and the diagnostics
\* polling loop is stopped
C8_TeardownCancelsCallbacks ==
    ~Mounted => (timers = {} /\ frames = {})

\* C9: no auto-hide timeout fires and sets showControls = false while the
\* chapter list or the settings panel is open
C9_NoHideUnderOverlay ==
    [][(TimerFire /\ Mounted /\ showControls /\ ~showControls')
          => (~showChapterList /\ ~showSettings)]_vars

\* the auto-hide timers armed by the running session that are still pending
SessionTimers == {t \in timers : t.owner = sessions}

\* a step of a handler that calls showControlsTemp: keyboard seek, skip
\* intro, chapter skip with a non-empty active chapter list, keyboard volume
PulseStep ==
    \/ KeySeek
    \/ KeyVolume
    \/ KeySkipIntro
    \/ ClickSkipIntro
    \/ (Len(chapters) > 0 /\
          (KeyNextChapter \/ KeyPrevChapter \/ ClickNextChapter \/ ClickPrevChapter))

StatsVisible == Mounted /\ showStats /\ showControls /\ error = NoError

\* C11: a per-frame poll is scheduled only while the diagnostics panel is
\* visible
C11_PollOnlyWhileVisible == (frames # {}) => StatsVisible

\* a sample of the loop: the frame callback, or the first sample taken when
\* the stats effect starts
SampleStep == Poll \/ (ToggleStats /\ showStats')

C13_BufferAhead ==
    [][SampleStep =>
         LET t == v.currentTime
             holding == {i \in 1..Len(v.buffered) :
                           v.buffered[i][1] <= t /\ t <= v.buffered[i][2]}
         IN  /\ realtimeStats'.buffer >= 0
             /\ holding = {} => realtimeStats'.buffer = 0
             /\ \A i \in holding :
                   (\A j \in holding : i <= j)
                      => realtimeStats'.buffer = v.buffered[i][2] - t]_vars

\* a sample found the position inside the second of two buffered ranges
C13_Witness ==
    /\ Mounted /\ showStats
    /\ Len(v.buffered) = 2
    /\ v.currentTime >= v.buffered[2][1]
    /\ realtimeStats.buffer = v.buffered[2][2] - v.currentTime
    /\ realtimeStats.buffer > 0

\* the startTimes of a chapter list
Starts(list) == {list[i] : i \in 1..Len(list)}

\* the greatest of a non-empty set of times
Latest(S) == CHOOSE x \in S : \A y \in S : y <= x

\* the least of a non-empty set of times
Earliest(S) == CHOOSE x \in S : \A y \in S : x <= y

\* C14: the active chapter list is empty while duration is 0 and otherwise
\* holds exactly the metadata chapters with startTime < duration, ascending
\* by startTime; the metadata list itself is never reordered
C14_ActiveChapters ==
    /\ [](Mounted =>
            LET meta == MetadataChapters
                kept == {i \in 1..Len(meta) : meta[i] < duration}
            IN  /\ duration = 0 => chapters = <<>>
                /\ duration # 0 =>
                      /\ Len(chapters) = Cardinality(kept)
                      /\ Starts(chapters) = {meta[i] : i \in kept}
                      /\ \A i \in 1..Len(chapters) : \A j \in i..Len(chapters) :
                            chapters[i] <= chapters[j])
    /\ [][\A i \in 1..Len(library) :
             library'[i].chapters = library[i].chapters]_vars

\* the feature is loaded: of its chapters <<4, 1, 9, 5>> the one beyond the
\* end is dropped and the rest is in ascending order
C14_Witness ==
    /\ Mounted /\ duration = FeatureLen
    /\ MetadataChapters = <<4, 1, 9, 5>>
    /\ chapters = <<1, 4, 5>>

\* C15: the chapter reported for a time t, the playback position or a
\* scrub-bar hover time, is the one with the greatest startTime <= t, and
\* none when no chapter has started by t
C15_CurrentChapter ==
    Mounted =>
      /\ \A t \in 0..duration :
            LET k == hoverChapter(t)
                started == {x \in Starts(chapters) : x <= t}
            IN  /\ started = {} => k = 0
                /\ started # {} => (k # 0 /\ chapters[k] = Latest(started))
      /\ LET started == {x \in Starts(chapters) : x <= currentTime}
         IN  /\ started = {} => currentChapter = 0
             /\ started # {} =>
                   (currentChapter # 0 /\ chapters[currentChapter] = Latest(started))

\* at the very start of the second chapter of the feature, with a later
\* chapter still ahead
C15_Witness ==
    /\ Mounted /\ chapters = <<1, 4, 5>>
    /\ currentTime = 4 /\ currentChapter = 2
    /\ hoverChapter(0) = 0

\* a step of skipNextChapter with chapters to skip between
SkipNextStep ==
    Len(chapters) > 0 /\ (KeyNextChapter \/ ClickNextChapter)

\* a step of skipPrevChapter with chapters to skip between
SkipPrevStep ==
    Len(chapters) > 0 /\ (KeyPrevChapter \/ ClickPrevChapter)

\* C16: skip-to-next-chapter seeks to the earliest active chapter whose
\* startTime is greater than currentTime + 1 and leaves the position alone
\* when there is none; one second before a chapter starts, the target is the
\* chapter after it
C16_SkipNext ==
    [][SkipNextStep =>
         LET ahead == {x \in Starts(chapters) : x > currentTime + 1}
         IN  /\ ahead = {} => UNCHANGED <<v, currentTime>>
             /\ ahead # {} =>
                   /\ v'.currentTime = Earliest(ahead)
                   /\ currentTime' = Earliest(ahead)
             /\ (chapters = <<1, 4, 5>> /\ currentTime = 3) => v'.currentTime = 5]_vars

\* a chapter skip has just moved the position to the last chapter of the
\* feature
C16_Witness ==
    /\ Mounted /\ chapters = <<1, 4, 5>>
    /\ currentTime = 5 /\ v.currentTime = 5
    /\ \E t \in timers : t.id = controlsTimeoutRef /\ t.delay = TempHideDelay

\* C17: skip-to-previous-chapter goes to 0 when no chapter has started, to
\* the previous chapter's start (0 for the first chapter) when currentTime is
\* less than 3 seconds into the current chapter, and to the current
\* chapter's start otherwise
C17_SkipPrev ==
    [][SkipPrevStep =>
         LET started == {x \in Starts(chapters) : x <= currentTime}
             current == Latest(started)
             before == {x \in Starts(chapters) : x < current}
             target == IF started = {} THEN 0
                       ELSE IF currentTime - current < 3
                            THEN IF before = {} THEN 0 ELSE Latest(before)
                            ELSE current
         IN  v'.currentTime = target /\ currentTime' = target]_vars

\* a chapter skip has just moved the position to the middle chapter of the
\* feature
C17_Witness ==
    /\ Mounted /\ chapters = <<1, 4, 5>>
    /\ currentTime = 4 /\ v.currentTime = 4
    /\ \E t \in timers : t.id = controlsTimeoutRef /\ t.delay = TempHideDelay

\* C18: the skip-intro offer is shown exactly inside the intro window, and
\* skipping puts the playback position at intro.end, where the offer is no
\* longer shown
C18_SkipIntro ==
    /\ [](Mounted =>
            (showSkipIntro <=>
               /\ Video.intro # <<>>
               /\ Video.intro[1] <= currentTime
               /\ currentTime < Video.intro[2]))
    /\ [][(KeySkipIntro \/ ClickSkipIntro) =>
             /\ v'.currentTime = Video.intro[2]
             /\ ~showSkipIntro']_vars

\* the cue sequence of a track: the cues of the file it was imported from
TrackCues(id) ==
    parseSRT(FileText((CHOOSE t \in {subtitleTracks[i] : i \in 1..Len(subtitleTracks)} :
                         t.id = id).label))

C20_ToggleRoundTrip ==
    (Mounted /\ selectedSubtitleTrack # "off") =>
       ToggledSelection(ToggledSelection(selectedSubtitleTrack, subtitleTracks),
                        subtitleTracks) = selectedSubtitleTrack

\* C21: a completing import appends exactly one track, keeping the others
\* in order; its identifier is none of the existing ones and not 'off'; it
\* becomes the selected track, the active cues become the cues of its file,
\* and the settings panel is open
C21_ImportAppendsTrack ==
    [][SubtitleLoaded =>
         /\ Len(subtitleTracks') = Len(subtitleTracks) + 1
         /\ SubSeq(subtitleTracks', 1, Len(subtitleTracks)) = subtitleTracks
         /\ LET new == subtitleTracks'[Len(subtitleTracks')]
            IN  /\ new.id # "off"
                /\ \A i \in 1..Len(subtitleTracks) : subtitleTracks[i].id # new.id
                /\ selectedSubtitleTrack' = new.id
                /\ activeCues' = parseSRT(FileText(new.label))
         /\ showSettings']_vars

\* C22: changeVolume(delta) sets the engine volume and the displayed volume
\* to clamp(engine volume + delta, 0, 1) and the displayed mute flag to
\* (that volume = 0); both volumes stay within [0, 1] whatever changes them
C22_ChangeVolumeClamps ==
    /\ [](Mounted => /\ v.volume \in 0..VolumeMax
                      /\ volume \in 0..VolumeMax)
    /\ [][KeyVolume =>
            \E delta \in {VolumeStep, 0 - VolumeStep} :
               LET sum == v.volume + delta
                   clamped == IF sum < 0 THEN 0
                              ELSE IF sum > VolumeMax THEN VolumeMax ELSE sum
               IN  /\ v'.volume = clamped
                   /\ volume' = clamped
                   /\ isMuted' = (clamped = 0)]_vars

\* volume-down has reached 0 by key presses alone
C22_Witness ==
    Mounted /\ v.volume = 0 /\ volume = 0 /\ isMuted /\ ~v.muted

\* C23: one Escape press does exactly one of four things, by priority: it
\* closes the chapter list if that is open; else closes the settings if
\* they are open; else leaves fullscreen if the host is in fullscreen; else
\* leaves the session
C23_EscapePriority ==
    [][KeyEscape =>
         LET closesList == showChapterList /\ ~showChapterList'
             closesSettings == showSettings /\ ~showSettings'
             exitsFullscreen == fullscreenElement /\ ~fullscreenElement'
             leaves == view' = "library"
         IN  /\ closesList = showChapterList
             /\ closesSettings = (~showChapterList /\ showSettings)
             /\ exitsFullscreen =
                   (~showChapterList /\ ~showSettings /\ fullscreenElement)
             /\ leaves =
                   (~showChapterList /\ ~showSettings /\ ~fullscreenElement)]_vars

\* the chapter list is closed while the settings are still open and the
\* host is still in fullscreen: the state one Escape leaves when all three
\* applied
C23_Witness ==
    Mounted /\ ~showChapterList /\ showSettings /\ fullscreenElement

\* C24: while a session is open the isFullscreen flag equals the host's
\* fullscreen state, also after the host denied the request or left
\* fullscreen on its own
C24_FullscreenFlagTracksHost ==
    Mounted => (isFullscreen = fullscreenElement)

\* the blocks of the written file, as lines
SrtBlockLines ==
    LET blocks == SplitBlocks(Content(srtText), <<>>)
    IN  [i \in 1..Len(blocks) |-> BlockLines(blocks[i])]

\* a file made of the given blocks, a blank line between two
RECURSIVE JoinBlocks(_)
JoinBlocks(blocks) ==
    IF blocks = <<>> THEN <<>>
    ELSE IF Len(blocks) = 1 THEN blocks[1]
    ELSE blocks[1] \o <<Blank>> \o JoinBlocks(Tail(blocks))

\* the blocks without the i-th
WithoutBlock(blocks, i) ==
    SubSeq(blocks, 1, i - 1) \o SubSeq(blocks, i + 1, Len(blocks))

\* the cues of each block parsed alone, one after the other
RECURSIVE CuesBlockByBlock(_)
CuesBlockByBlock(blocks) ==
    IF blocks = <<>> THEN <<>>
    ELSE parseSRT(Head(blocks)) \o CuesBlockByBlock(Tail(blocks))

\* a block with fewer than two lines, without a '-->' line, or with a time
\* in its '-->' line that does not parse to a number
BadBlock(lines) ==
    \/ Len(lines) < 2
    \/ \A i \in 1..Len(lines) : lines[i].kind # "time"
    \/ LET first == CHOOSE i \in 1..Len(lines) :
                       /\ lines[i].kind = "time"
                       /\ \A j \in 1..(i - 1) : lines[j].kind # "time"
       IN  parseTime(lines[first].start) = NaN \/ parseTime(lines[first].end) = NaN

\* C25: parsing is block-local.  A block with fewer than two lines, without
\* a '-->' line or with an unparseable time gives no cue, and the file
\* parses to the same cues with that block removed; the cues are those of
\* the blocks in block order, each with numeric times; an empty file gives
\* no cues; an imported file's active cues are this parse result
C25_ParseBlockLocal ==
    LET blocks == SrtBlockLines
        cues == parseSRT(srtText)
    IN  /\ srtText = <<>> => cues = <<>>
        /\ \A i \in 1..Len(cues) : cues[i].start \in Nat /\ cues[i].end \in Nat
        /\ cues = CuesBlockByBlock(blocks)
        /\ \A i \in 1..Len(blocks) :
              BadBlock(blocks[i]) =>
                 /\ parseSRT(blocks[i]) = <<>>
                 /\ parseSRT(JoinBlocks(WithoutBlock(blocks, i))) = cues
        /\ (Mounted /\ Len(subtitleTracks) > 0) => activeCues = cues

\* a file with a bad block between two good ones was imported and gave the
\* two cues of the good blocks, in block order
C25_Witness ==
    /\ Mounted /\ Len(subtitleTracks) > 0
    /\ Len(SrtBlockLines) = 3
    /\ ~BadBlock(SrtBlockLines[1])
    /\ BadBlock(SrtBlockLines[2]) /\ Len(SrtBlockLines[2]) >= 2
    /\ ~BadBlock(SrtBlockLines[3])
    /\ Len(activeCues) = 2
    /\ activeCues[1].text = "y" /\ activeCues[2].text = ""

\* C26: entering a session sets lastPlayed of the played entry and nothing
\* else in the library, and while a session is open no VideoFile record
\* of the library changes
C26_RecordsFrozenInSession ==
    [][/\ (view = "library" /\ view' = "player") =>
            /\ Len(library') = Len(library)
            /\ \A i \in 1..Len(library) :
                  IF library[i].id = currentVideo'
                  THEN /\ library'[i].lastPlayed = sessions'
                       /\ library'[i] = [library[i] EXCEPT !.lastPlayed = sessions']
                  ELSE library'[i] = library[i]
       /\ Mounted => library' = library]_vars

\* C27: the view is 'player' exactly when a current video is set, and a
\* session begins only from the library view, with no current video and the
\* engine of the previous session paused, without source and without
\* listeners
C27_OneSessionOwnsEngine ==
    /\ []((view = "player") <=> (currentVideo # 0))
    /\ [][(currentVideo' # currentVideo /\ currentVideo' # 0) =>
            /\ view = "library" /\ currentVideo = 0
            /\ v.paused /\ ~v.src /\ ~v.listeners
            /\ view' = "player"]_vars

\* a second session, for another entry than the first, is open
C27_Witness ==
    /\ Mounted /\ sessions = 2 /\ v.src
    /\ \E i \in 1..Len(library) :
          library[i].id # currentVideo /\ library[i].lastPlayed = 1

\* C30: entries are never removed, reordered or duplicated (an entry's id
\* is the ordinal of its import), a thumbnail once set stays set, and
\* lastPlayed once set changes only when a session for that entry is entered
C30_LibraryUpdatesKept ==
    [][/\ Len(library') >= Len(library)
       /\ \A i \in 1..Len(library) :
             /\ library'[i].id = library[i].id
             /\ library'[i].file = library[i].file
             /\ library[i].thumbnail => library'[i].thumbnail
             /\ library[i].lastPlayed # 0 =>
                   \/ library'[i].lastPlayed = library[i].lastPlayed
                   \/ /\ view = "library" /\ currentVideo' = library[i].id
                      /\ library'[i].lastPlayed = sessions'
       /\ \A i \in 1..Len(library') : library'[i].id = i]_vars

\* the thumbnail of an entry arrived after the entry had been played, while
\* another import is still waiting for its thumbnail
C30_Witness ==
    /\ Len(library) = MaxLibrary
    /\ thumbnailJobs # {}
    /\ \E i \in 1..Len(library) :
          library[i].lastPlayed # 0 /\ library[i].thumbnail

\* C28: while a session is open the displayed mute flag equals the
\* engine's mute flag, whatever sequence of toggleMute, keyboard volume
\* changes and slider changes led there
C28_MuteFlagTracksEngine ==
    Mounted => (isMuted = v.muted)

\* C29: a press of skip-previous never moves the playback position
\* forward, and it leaves the position at 0 or at a chapter start below the
\* one it started in, so that presses in a row reach 0
C29_SkipPrevGoesBack ==
    [][SkipPrevStep =>
         /\ v'.currentTime <= v.currentTime
         /\ v'.currentTime = 0 \/ v'.currentTime < v.currentTime]_vars

====
